---------------------------- MODULE Spec2Model ----------------------------
(***************************************************************************)
(* A model of the code-gimbap web application: the route middleware        *)
(* (src/middleware.ts), the user query/mutation hooks and the signup form  *)
(* (src/remote/users/index.ts).                                            *)
(*                                                                         *)
(* Text (paths, form fields, error messages) is a sequence of one-letter   *)
(* strings, so that prefix tests, substring tests, trimming and lengths    *)
(* are computed as the code computes them.                                 *)
(***************************************************************************)
EXTENDS Naturals, Sequences, FiniteSets, TLC

VARIABLES
    mw,             \* the last request and what became of it (middleware.ts)
    service,        \* the auth service: the session's account, or none
    userQuery,      \* the query cache's entry for the current user
    inflight,       \* the getUser call the query is waiting for, if any
    orphanCalls,    \* cancelled getUser calls still on the network
    update,         \* the update-user-metadata mutation
    mutations,      \* how many update mutations were started
    formData,       \* SignupForm: the four fields
    error,          \* SignupForm: the error text shown ("" for none)
    success,        \* SignupForm: whether the success view is shown
    signup,         \* the registration mutation
    errorShown,     \* history: the form has shown an error text before
    location,       \* window.location: the path of the page on screen
    signOuts        \* Header: the runs of handleSignOut, one per click

vars == <<mw, service, userQuery, inflight, orphanCalls, update, mutations,
          formData, error, success, signup, errorShown, location, signOuts>>

cacheVars == <<service, userQuery, inflight, orphanCalls, update, mutations>>
formVars  == <<formData, error, success, signup, errorShown>>
headerVars == <<location, signOuts>>

---------------------------------------------------------------------------
(* Text helpers *)

\* All sequences over S of length at most n.
SeqsUpTo(S, n) == UNION {[1..k -> S] : k \in 0..n}

\* String.prototype.startsWith on letter sequences.
StartsWith(s, p) ==
    /\ Len(p) <= Len(s)
    /\ \A i \in 1..Len(p) : s[i] = p[i]

\* String.prototype.includes on letter sequences.
Includes(s, needle) ==
    \E i \in 0..Len(s) :
        /\ i + Len(needle) <= Len(s)
        /\ \A j \in 1..Len(needle) : s[i + j] = needle[j]

---------------------------------------------------------------------------
(* Route middleware: src/middleware.ts *)

\* Bound: the longest suffix appended to a base path.
MaxSuffixLen == 2

LoginPath == <<"/", "l", "o", "g", "i", "n">>

\* The alternatives of the matcher's negative lookahead, as regular
\* expressions: a "." stands for any one letter, every other letter for
\* itself.
MatcherAlternatives ==
    { <<"a", "p", "i">>,
      <<"_", "n", "e", "x", "t", "/", "s", "t", "a", "t", "i", "c">>,
      <<"_", "n", "e", "x", "t", "/", "i", "m", "a", "g", "e">>,
      <<"f", "a", "v", "i", "c", "o", "n", ".", "i", "c", "o">>,
      <<"l", "o", "g", "i", "n">> }

\* Whether the regular expression `pat` matches at the start of s.
LookaheadMatches(s, pat) ==
    /\ Len(pat) <= Len(s)
    /\ \A i \in 1..Len(pat) : pat[i] = "." \/ s[i] = pat[i]

\* A mutant of the matcher: the login alternative is missing from the
\* lookahead.
MatcherMatchesNoLogin(path) ==
    /\ Len(path) >= 1
    /\ path[1] = "/"
    /\ \A pat \in MatcherAlternatives \ {<<"l", "o", "g", "i", "n">>} :
           ~LookaheadMatches(Tail(path), pat)

\* A mutant of the matcher: the lookahead excludes all of _next, not only
\* _next/static and _next/image.
MatcherMatchesNextDir(path) ==
    /\ Len(path) >= 1
    /\ path[1] = "/"
    /\ \A pat \in MatcherAlternatives \cup {<<"_", "n", "e", "x", "t">>} :
           ~LookaheadMatches(Tail(path), pat)

\* config.matcher: '/((?!api|_next/static|_next/image|favicon.ico|login).*)'
\* a slash, then no alternative matching at that place, then anything.
MatcherMatches(path) ==
    /\ Len(path) >= 1
    /\ path[1] = "/"
    /\ \A pat \in MatcherAlternatives : ~LookaheadMatches(Tail(path), pat)

BasePaths ==
    { <<"/">>,
      <<"/", "l", "o", "g", "i", "n">>,
      <<"/", "a", "p", "i">>,
      <<"/", "_", "n", "e", "x", "t", "/", "s", "t", "a", "t", "i", "c">>,
      <<"/", "_", "n", "e", "x", "t", "/", "i", "m", "a", "g", "e">>,
      <<"/", "_", "n", "e", "x", "t", "/", "d", "a", "t", "a">>,
      <<"/", "f", "a", "v", "i", "c", "o", "n", ".", "i", "c", "o">>,
      <<"/", "f", "a", "v", "i", "c", "o", "n", "x", "i", "c", "o">>,
      <<"/", "h", "o", "m", "e">>,
      <<"/", "a", "/", "l", "o", "g", "i", "n">> }

RequestPaths ==
    { b \o s : b \in BasePaths, s \in SeqsUpTo({"x", "/"}, MaxSuffixLen) }

\* What getCurrentUserForMiddleware(req) can resolve to: a user, or null
\* when the request carries no resolvable session.
NoUser == "null"
SessionUsers == {"alice", "bob"}

\* middleware(req), given the user the accessor resolved for req: a
\* redirect to /login when there is none, and otherwise nothing (the
\* request proceeds unmodified).
middleware(user) ==
    IF user = NoUser
    THEN [kind |-> "redirect", location |-> LoginPath]
    ELSE [kind |-> "next"]

NoRequest == [handled |-> FALSE]

\* One incoming request: the framework runs the middleware when the
\* matcher matches the path, and serves the route as it is otherwise.
HandleRequest ==
    \E path \in RequestPaths, user \in SessionUsers \cup {NoUser} :
        LET ran == MatcherMatches(path)
        IN /\ mw' = [ handled  |-> TRUE,
                      path     |-> path,
                      user     |-> user,
                      ran      |-> ran,
                      response |-> IF ran THEN middleware(user)
                                   ELSE [kind |-> "next"] ]
           /\ UNCHANGED <<cacheVars, formVars, headerVars>>

---------------------------------------------------------------------------
(* The auth service and the current-user query: useUserQuery *)

\* Bound: how many update mutations a behaviour starts.
MaxMutations == 2

\* {...a, ...b}: b's fields over a's.
Spread(a, b) ==
    [k \in DOMAIN a \cup DOMAIN b |-> IF k \in DOMAIN b THEN b[k] ELSE a[k]]

NoMetadata == [k \in {} |-> TRUE]
NoSession == [signedIn |-> FALSE]

\* The accounts a session can belong to when the application starts:
\* user_metadata is an open bag, with or without a name and an admin flag.
InitialSessions ==
    { NoSession,
      [ signedIn |-> TRUE, id |-> "u1",
        email |-> <<"k", "i", "m", "@", "x">>,
        user_metadata |-> NoMetadata,
        created_at |-> "t0", updated_at |-> "t0" ],
      [ signedIn |-> TRUE, id |-> "u2",
        email |-> <<"l", "e", "e", "@", "x">>,
        user_metadata |-> [name |-> <<"L", "e", "e">>, is_admin |-> TRUE],
        created_at |-> "t0", updated_at |-> "t0" ] }

\* The service's replies to auth.getUser(): { data: { user }, error }.
NoError == "none"
SessionMissing == "AuthSessionMissingError"
ServiceFailure == "AuthRetryableFetchError"
NoReply == [answered |-> FALSE]

\* What the service can answer to getUser(): the session's user; without a
\* session no user, reported either as plain absence or as the error
\* AuthSessionMissingError; or, in any state, a failure of the call.
GetUserReplies ==
    (IF service.signedIn
     THEN {[answered |-> TRUE, user |-> service, error |-> NoError]}
     ELSE {[answered |-> TRUE, user |-> NoSession, error |-> NoError],
           [answered |-> TRUE, user |-> NoSession, error |-> SessionMissing]})
    \cup {[answered |-> TRUE, user |-> NoSession, error |-> ServiceFailure]}

\* email.split("@")[0]
LocalPart(email) ==
    IF \E i \in 1..Len(email) : email[i] = "@"
    THEN SubSeq(email, 1,
                (CHOOSE i \in 1..Len(email) :
                    /\ email[i] = "@"
                    /\ \A j \in 1..(i - 1) : email[j] # "@") - 1)
    ELSE email

\* The fallback display name (the Korean word for "user").
DefaultName == <<"ko:user">>

\* The normalised User built from the service's user object.
NormalizeUser(u) ==
    [ id         |-> u.id,
      email      |-> u.email,
      name       |-> IF "name" \in DOMAIN u.user_metadata
                        /\ u.user_metadata.name # <<>>
                     THEN u.user_metadata.name
                     ELSE IF LocalPart(u.email) # <<>>
                          THEN LocalPart(u.email)
                          ELSE DefaultName,
      is_admin   |-> IF "is_admin" \in DOMAIN u.user_metadata
                     THEN u.user_metadata.is_admin
                     ELSE FALSE,
      created_at |-> u.created_at,
      updated_at |-> u.updated_at ]

Undefined == [tag |-> "undefined"]
Null == [tag |-> "null"]
UserData(u) == [tag |-> "user", val |-> u]

\* useUserQuery's queryFn, given the reply of auth.getUser(): throws the
\* error if there is one, returns null without a user, and the normalised
\* user otherwise.
queryFn(reply) ==
    IF reply.error # NoError THEN [kind |-> "throw", error |-> reply.error]
    ELSE IF ~reply.user.signedIn THEN [kind |-> "data", data |-> Null]
    ELSE [kind |-> "data", data |-> UserData(NormalizeUser(reply.user))]

\* The query's data is set (by a fetch or by setQueryData): it is fresh
\* again for staleTime.
SetData(q, data) ==
    [q EXCEPT !.data = data, !.isInvalidated = FALSE, !.stale = FALSE,
              !.error = NoError]

IsStale(q) == q.data = Undefined \/ q.isInvalidated \/ q.stale

NoCall == [sent |-> FALSE]
NewCall == [sent |-> TRUE, reply |-> NoReply, epoch |-> mutations]

\* queryClient.invalidateQueries({ queryKey }): the entry, if the cache
\* holds one, is marked invalidated, and being observed it is refetched;
\* a fetch already under way is cancelled for the new one.
InvalidateQueries(q) ==
    IF ~q.observers
    THEN /\ userQuery' = q
         /\ UNCHANGED <<inflight, orphanCalls>>
    ELSE /\ userQuery' = [q EXCEPT !.isInvalidated = TRUE]
         /\ inflight' = NewCall
         /\ orphanCalls' = IF inflight.sent THEN orphanCalls + 1
                           ELSE orphanCalls

\* A component using useUserQuery mounts: the entry is created and, having
\* no data or stale data, fetched (one fetch is shared).
MountObserver ==
    /\ ~userQuery.observers
    /\ userQuery' = [userQuery EXCEPT !.observers = TRUE]
    /\ inflight' = IF IsStale(userQuery) /\ ~inflight.sent THEN NewCall
                   ELSE inflight
    /\ UNCHANGED <<headerVars, mw, service, orphanCalls, update, mutations, formVars>>

\* staleTime (5 minutes) passes since the data was last set.
StaleTimeElapses ==
    /\ userQuery.data # Undefined
    /\ ~userQuery.stale
    /\ userQuery' = [userQuery EXCEPT !.stale = TRUE]
    /\ UNCHANGED <<headerVars, mw, service, inflight, orphanCalls, update, mutations, formVars>>

\* The window regains focus, or another observer mounts: stale data is
\* refetched unless a fetch is under way.
RefetchStale ==
    /\ userQuery.observers
    /\ IsStale(userQuery)
    /\ ~inflight.sent
    /\ inflight' = NewCall
    /\ UNCHANGED <<headerVars, mw, service, userQuery, orphanCalls, update, mutations, formVars>>

\* The service answers the getUser call the query waits for.
ServiceAnswersGetUser ==
    /\ inflight.sent
    /\ ~inflight.reply.answered
    /\ \E reply \in GetUserReplies :
           inflight' = [inflight EXCEPT !.reply = reply]
    /\ UNCHANGED <<headerVars, mw, service, userQuery, orphanCalls, update, mutations, formVars>>

\* The answer reaches the client and queryFn finishes: its result becomes
\* the data, or its error the query's error (the data is kept).
DeliverGetUser ==
    /\ inflight.sent
    /\ inflight.reply.answered
    /\ LET out == queryFn(inflight.reply) IN
       userQuery' = IF out.kind = "throw"
                    THEN [userQuery EXCEPT !.error = out.error]
                    ELSE SetData(userQuery, out.data)
    /\ inflight' = NoCall
    /\ UNCHANGED <<headerVars, mw, service, orphanCalls, update, mutations, formVars>>

\* The answer to a cancelled call arrives: its promise was already
\* rejected, nothing is written.
DeliverCancelled ==
    /\ orphanCalls > 0
    /\ orphanCalls' = orphanCalls - 1
    /\ UNCHANGED <<headerVars, mw, service, userQuery, inflight, update, mutations, formVars>>

---------------------------------------------------------------------------
(* Updating the user's metadata: useUpdateUserMutation *)

\* The partial updates a caller submits: { name?, is_admin? }.
UpdateInputs ==
    { NoMetadata,
      [name |-> <<"B", "o">>],
      [is_admin |-> TRUE],
      [is_admin |-> FALSE],
      [name |-> <<"B", "o">>, is_admin |-> TRUE] }

\* A mutant of cancelQueries: nothing is cancelled.
CancelNothing(call, orphans) == [inflight |-> call, orphans |-> orphans]

\* queryClient.cancelQueries({ queryKey }): the fetch under way, if any, is
\* cancelled; its call stays on the network and its answer is dropped.
CancelQueries(call, orphans) ==
    [ inflight |-> NoCall,
      orphans  |-> IF call.sent THEN orphans + 1 ELSE orphans ]

\* A mutant of the updater: the update is merged under the old value.
UpdaterOldWins(old, updates) ==
    IF old.tag # "user" THEN old
    ELSE UserData(Spread(updates, old.val))

\* The updater onMutate hands to setQueryData: no old value, no change;
\* otherwise the old value with the updates spread over it.
OptimisticUpdater(old, updates) ==
    IF old.tag # "user" THEN old
    ELSE UserData(Spread(old.val, updates))

\* queryClient.setQueryData(queryKey, data): undefined changes nothing.
SetQueryData(q, data) ==
    IF data = Undefined THEN q ELSE SetData(q, data)

IdleUpdate ==
    [pc |-> "idle", status |-> "idle", vars |-> NoMetadata,
     context |-> Undefined, ok |-> FALSE]

\* mutate(updates): onMutate cancels the reads under way, keeps the
\* previous value, writes the optimistic one; then mutationFn sends
\* auth.updateUser({ data: updates }).
Mutate ==
    /\ update.pc = "idle"
    /\ mutations < MaxMutations
    /\ \E updates \in UpdateInputs :
        LET c == CancelQueries(inflight, orphanCalls)
            previousUser == userQuery.data
        IN /\ inflight' = c.inflight
           /\ orphanCalls' = c.orphans
           /\ userQuery' = SetQueryData(userQuery,
                               OptimisticUpdater(userQuery.data, updates))
           /\ update' = [pc |-> "calling", status |-> "pending",
                         vars |-> updates, context |-> previousUser,
                         ok |-> FALSE]
    /\ mutations' = mutations + 1
    /\ UNCHANGED <<headerVars, mw, service, formVars>>

\* The service handles updateUser: with a session it merges the data into
\* the account's metadata and answers with the user; the call can also
\* fail, before or after the account was changed.
ServiceAnswersUpdate ==
    /\ update.pc = "calling"
    /\ \E applied \in BOOLEAN, ok \in BOOLEAN :
        /\ applied => service.signedIn
        /\ ok => applied
        /\ service' = IF applied
                      THEN [service EXCEPT
                              !.user_metadata = Spread(@, update.vars),
                              !.updated_at = "t1"]
                      ELSE service
        /\ update' = [update EXCEPT !.pc = "answered", !.ok = ok]
    /\ UNCHANGED <<headerVars, mw, userQuery, inflight, orphanCalls, mutations, formVars>>

\* A mutant of onSettled: nothing is invalidated, nothing refetched.
onSettledNoRefetch(q) ==
    /\ userQuery' = q
    /\ UNCHANGED <<inflight, orphanCalls>>

\* onSettled: whatever the outcome, the current-user entry is invalidated.
onSettled(q) == InvalidateQueries(q)

\* The answer reaches the client: mutationFn returns the user or throws
\* the error, onError does nothing, onSettled runs.
SettleUpdate ==
    /\ update.pc = "answered"
    /\ onSettled(userQuery)
    /\ update' = [update EXCEPT !.pc = "idle",
                    !.status = IF update.ok THEN "success" ELSE "error"]
    /\ UNCHANGED <<headerVars, mw, service, mutations, formVars>>

---------------------------------------------------------------------------
(* Registration: useSignupMutation and SignupForm *)

\* Bound: the longest password typed into the form.
MaxPasswordLen == 6

\* The minimum password length validateForm asks for.
MinPasswordLen == 6

Whitespace == {" ", "\t"}

RECURSIVE TrimStart(_)
TrimStart(s) ==
    IF s # <<>> /\ Head(s) \in Whitespace THEN TrimStart(Tail(s)) ELSE s

RECURSIVE TrimEnd(_)
TrimEnd(s) ==
    IF s # <<>> /\ s[Len(s)] \in Whitespace
    THEN TrimEnd(SubSeq(s, 1, Len(s) - 1))
    ELSE s

\* String.prototype.trim
Trim(s) == TrimEnd(TrimStart(s))

\* The texts the form shows (Korean in the source).
MsgNameRequired      == <<"ko:please-enter-your-name">>
MsgEmailRequired     == <<"ko:please-enter-your-email">>
MsgPasswordTooShort  == <<"ko:password-must-be-at-least-6-characters">>
MsgPasswordMismatch  == <<"ko:passwords-do-not-match">>
MsgAlreadyRegistered == <<"ko:this-email-address-is-already-registered">>
MsgWeakPassword      == <<"ko:password-too-weak-use-a-more-complex-one">>
MsgNetworkError      == <<"ko:network-error-check-your-connection">>
MsgSignupFailed      == <<"ko:an-error-occurred-during-signup">>
\* The message of the Error mutationFn throws when signUp returns no user.
MsgUserNotCreated    == <<"ko:failed-to-create-the-user">>

UserAlreadyRegistered == <<"U", "s", "e", "r", " ", "a", "l", "r", "e", "a", "d", "y", " ", "r", "e", "g", "i", "s", "t", "e", "r", "e", "d">>

\* What can be typed into the form's fields (all empty at first).
NameInputs == { <<" ">>, <<" ", "A", "n", " ">> }
EmailInputs == { <<" ", "\t">>, <<"a", "n", "@", "x">> }
PasswordInputs ==
    { [i \in 1..k |-> "a"] : k \in (MinPasswordLen - 1)..MaxPasswordLen }
    \cup { <<"a", "a", "a", "a", "a", "b">> }

FieldInputs(field) ==
    CASE field = "name" -> NameInputs
      [] field = "email" -> EmailInputs
      [] OTHER -> PasswordInputs

\* The messages a failed signUp call can carry.
ErrorMessages ==
    { <<>>,
      UserAlreadyRegistered,
      <<"E", "m", "a", "i", "l", " ", "a", "l", "r", "e", "a", "d", "y", " ", "r", "e", "g", "i", "s", "t", "e", "r", "e", "d">>,
      <<"P", "a", "s", "s", "w", "o", "r", "d", " ", "s", "h", "o", "u", "l", "d", " ", "b", "e", " ", "a", "t", " ", "l", "e", "a", "s", "t", " ", "6", " ", "c", "h", "a", "r", "a", "c", "t", "e", "r", "s">>,
      <<"W", "e", "a", "k", " ", "p", "a", "s", "s", "w", "o", "r", "d">>,
      <<"N", "e", "t", "w", "o", "r", "k", "E", "r", "r", "o", "r", " ", "w", "h", "e", "n", " ", "a", "t", "t", "e", "m", "p", "t", "i", "n", "g", " ", "t", "o", " ", "f", "e", "t", "c", "h", " ", "r", "e", "s", "o", "u", "r", "c", "e", ".">>,
      <<"F", "a", "i", "l", "e", "d", " ", "t", "o", " ", "f", "e", "t", "c", "h">>,
      <<"P", "a", "s", "s", "w", "o", "r", "d", " ", "c", "h", "e", "c", "k", " ", "f", "a", "i", "l", "e", "d", " ", "t", "o", " ", "f", "e", "t", "c", "h">> }

\* A mutant of validateForm: the email is tested before the name.
validateFormEmailFirst(fd) ==
    IF Trim(fd.email) = <<>> THEN MsgEmailRequired
    ELSE IF Trim(fd.name) = <<>> THEN MsgNameRequired
    ELSE IF Len(fd.password) < MinPasswordLen THEN MsgPasswordTooShort
    ELSE IF fd.password # fd.confirmPassword THEN MsgPasswordMismatch
    ELSE <<>>

\* validateForm: the message of the first rule that fails, "" when all
\* pass (the function then returns true).
validateForm(fd) ==
    IF Trim(fd.name) = <<>> THEN MsgNameRequired
    ELSE IF Trim(fd.email) = <<>> THEN MsgEmailRequired
    ELSE IF Len(fd.password) < MinPasswordLen THEN MsgPasswordTooShort
    ELSE IF fd.password # fd.confirmPassword THEN MsgPasswordMismatch
    ELSE <<>>

\* A mutant of handleSubmit: the old error text is not cleared first.
handleSubmitKeepsError(fd, shown) ==
    LET failed == validateForm(fd) IN
    [ error  |-> IF failed # <<>> THEN failed ELSE shown,
      submit |-> failed = <<>> ]

\* handleSubmit up to the call of signup(): the error text is cleared,
\* then set by the first failing rule; signup() is called when none fails.
handleSubmit(fd, shown) ==
    LET failed == validateForm(fd) IN
    [ error  |-> IF failed # <<>> THEN failed ELSE <<>>,
      submit |-> failed = <<>> ]

\* A mutant of the onError mapping: "already registered" is looked for as
\* a substring.
onErrorTextBySubstring(message) ==
    IF Includes(message, <<"a", "l", "r", "e", "a", "d", "y", " ", "r", "e", "g", "i", "s", "t", "e", "r", "e", "d">>)
    THEN MsgAlreadyRegistered
    ELSE IF Includes(message, <<"P", "a", "s", "s", "w", "o", "r", "d">>)
    THEN MsgWeakPassword
    ELSE IF \/ Includes(message, <<"N", "e", "t", "w", "o", "r", "k", "E", "r", "r", "o", "r">>)
            \/ Includes(message, <<"f", "e", "t", "c", "h">>)
    THEN MsgNetworkError
    ELSE IF message # <<>> THEN message ELSE MsgSignupFailed

\* A mutant of the onError mapping: the literal compared with is another.
onErrorTextOtherLiteral(message) ==
    IF message = <<"E", "m", "a", "i", "l", " ", "a", "l", "r", "e", "a", "d", "y", " ", "r", "e", "g", "i", "s", "t", "e", "r", "e", "d">>
    THEN MsgAlreadyRegistered
    ELSE IF Includes(message, <<"P", "a", "s", "s", "w", "o", "r", "d">>)
    THEN MsgWeakPassword
    ELSE IF \/ Includes(message, <<"N", "e", "t", "w", "o", "r", "k", "E", "r", "r", "o", "r">>)
            \/ Includes(message, <<"f", "e", "t", "c", "h">>)
    THEN MsgNetworkError
    ELSE IF message # <<>> THEN message ELSE MsgSignupFailed

\* The text handleSubmit's onError shows for an error's message.
onErrorText(message) ==
    IF message = UserAlreadyRegistered
    THEN MsgAlreadyRegistered
    ELSE IF Includes(message, <<"P", "a", "s", "s", "w", "o", "r", "d">>)
    THEN MsgWeakPassword
    ELSE IF \/ Includes(message, <<"N", "e", "t", "w", "o", "r", "k", "E", "r", "r", "o", "r">>)
            \/ Includes(message, <<"f", "e", "t", "c", "h">>)
    THEN MsgNetworkError
    ELSE IF message # <<>> THEN message ELSE MsgSignupFailed

NoAuthUser == [created |-> FALSE]

\* What auth.signUp() can answer for the submitted data: an error, no
\* error and no user, or the created user, its email confirmed already
\* (which signs the user in) or not yet.
SignUpReplies(data) ==
    { [error |-> TRUE, message |-> m, user |-> NoAuthUser] : m \in ErrorMessages }
    \cup { [error |-> FALSE, message |-> <<>>, user |-> NoAuthUser] }
    \cup { [ error |-> FALSE, message |-> <<>>,
             user |-> [ created |-> TRUE, id |-> "u3", email |-> data.email,
                        user_metadata |-> [name |-> data.name],
                        email_confirmed_at |-> c ] ] : c \in {"", "t1"} }

\* What the look-up of the profile row can come to.
ProfileOutcomes == {"found", "missing", "lookupError", "thrown"}

\* What the profile check writes to the console.
ProfileLog(outcome) ==
    CASE outcome = "found" -> {"log:profile-created"}
      [] outcome = "missing" -> {"warn:profile-not-found"}
      [] outcome = "lookupError" -> {"error:profile-check", "warn:profile-not-found"}
      [] OTHER -> {"error:profile-verification-failed"}

\* A mutant of mutationFn: the profile check is not wrapped in try/catch.
mutationFnResultUncaught(authUser, outcome) ==
    IF outcome = "thrown"
    THEN [kind |-> "throw", message |-> <<"profile check failed">>]
    ELSE [ kind |-> "return",
           user |-> authUser,
           needsEmailConfirmation |-> authUser.email_confirmed_at = "" ]

\* What mutationFn returns after the profile check, whatever its outcome.
mutationFnResult(authUser, outcome) ==
    [ kind |-> "return",
      user |-> authUser,
      needsEmailConfirmation |-> authUser.email_confirmed_at = "" ]

IdleSignup ==
    [ pc |-> "idle", status |-> "idle", vars |-> <<>>,
      reply |-> NoReply, authUser |-> NoAuthUser,
      profileChecks |-> 0, profileOutcome |-> "none", console |-> {},
      data |-> [kind |-> "none"], message |-> <<>> ]

isSignupPending == signup.status = "pending"

\* The form is on screen and its inputs and button are enabled.
FormEnabled == ~success /\ ~isSignupPending

\* handleChange: one field takes the typed value.
HandleChange ==
    /\ FormEnabled
    /\ \E field \in {"name", "email", "password", "confirmPassword"} :
         \E value \in FieldInputs(field) :
            formData' = [formData EXCEPT ![field] = value]
    /\ UNCHANGED <<headerVars, mw, cacheVars, error, success, signup, errorShown>>

\* handleSubmit: validation, and with every rule passed the registration
\* mutation is started and auth.signUp() called.
HandleSubmit ==
    /\ FormEnabled
    /\ LET r == handleSubmit(formData, error) IN
        /\ error' = r.error
        /\ errorShown' = (errorShown \/ error # <<>>)
        /\ signup' = IF r.submit
                     THEN [IdleSignup EXCEPT
                             !.pc = "signUp", !.status = "pending",
                             !.vars = [ email |-> formData.email,
                                        password |-> formData.password,
                                        name |-> formData.name ]]
                     ELSE signup
    /\ UNCHANGED <<headerVars, mw, cacheVars, formData, success>>

\* auth.signUp() answers. An error, or no user, makes mutationFn throw:
\* the mutation fails and the form's onError shows the mapped text.
\* With a user, mutationFn goes on to wait one second.
SignUpResponds ==
    /\ signup.pc = "signUp"
    /\ \E reply \in SignUpReplies(signup.vars) :
        IF reply.error \/ ~reply.user.created
        THEN LET message == IF reply.error THEN reply.message
                            ELSE MsgUserNotCreated
             IN /\ signup' = [signup EXCEPT
                                !.pc = "idle", !.status = "error",
                                !.reply = reply, !.message = message]
                /\ error' = onErrorText(message)
                /\ UNCHANGED <<service>>
        ELSE /\ signup' = [signup EXCEPT
                             !.pc = "delay", !.reply = reply,
                             !.authUser = reply.user]
             /\ service' = IF reply.user.email_confirmed_at # ""
                           THEN [ signedIn |-> TRUE, id |-> reply.user.id,
                                  email |-> reply.user.email,
                                  user_metadata |-> reply.user.user_metadata,
                                  created_at |-> "t1", updated_at |-> "t1" ]
                           ELSE service
             /\ UNCHANGED <<error>>
    /\ UNCHANGED <<headerVars, mw, userQuery, inflight, orphanCalls, update, mutations,
                   formData, success, errorShown>>

\* The one-second timer fires and the look-up of the profile row is sent.
DelayElapses ==
    /\ signup.pc = "delay"
    /\ signup' = [signup EXCEPT !.pc = "profileCheck"]
    /\ UNCHANGED <<headerVars, mw, cacheVars, formData, error, success, errorShown>>

\* The look-up ends one way or another and is logged; mutationFn returns;
\* the hook's onSuccess invalidates the current-user entry and the form's
\* onSuccess shows the success view.
ProfileCheckResponds ==
    /\ signup.pc = "profileCheck"
    /\ \E outcome \in ProfileOutcomes :
        LET r == mutationFnResult(signup.authUser, outcome)
            checked == [signup EXCEPT
                          !.pc = "idle",
                          !.profileChecks = @ + 1,
                          !.profileOutcome = outcome,
                          !.console = ProfileLog(outcome)]
        IN IF r.kind = "return"
           THEN /\ signup' = [checked EXCEPT !.status = "success", !.data = r]
                /\ InvalidateQueries(userQuery)
                /\ success' = TRUE
                /\ UNCHANGED <<error>>
           ELSE /\ signup' = [checked EXCEPT !.status = "error",
                                             !.message = r.message]
                /\ error' = onErrorText(r.message)
                /\ UNCHANGED <<userQuery, inflight, orphanCalls, success>>
    /\ UNCHANGED <<headerVars, mw, service, update, mutations, formData, errorShown>>

---------------------------------------------------------------------------
(* Signing out: src/components/Header.tsx *)

\* Bound: how many times the Sign Out button is clicked.
MaxSignOuts == 3

\* The page the Header is shown on when the application starts.
HomePath == <<"/">>

\* The Header, and its button, are on screen until the browser leaves for
\* the login page.
HeaderMounted == location # LoginPath

\* How the promise of clientAuth.signOut() can settle: fulfilled with the
\* session ended, fulfilled with the service's error as its value, or
\* rejected with that error (errors of the service propagate to the
\* caller).
SignOutOutcomes == {"signedOut", "errorReturned", "rejected"}

\* A mutant of handleSignOut: the result is looked at and the browser is
\* navigated only when the session was ended.
handleSignOutChecksError(outcome, href) ==
    IF outcome = "signedOut"
    THEN [pc |-> "navigated", href |-> LoginPath]
    ELSE [pc |-> "threw", href |-> href]

\* handleSignOut after its await: a rejection ends the handler there (it
\* has no try/catch); otherwise, whatever the value, window.location.href
\* is set to "/login".
handleSignOut(outcome, href) ==
    IF outcome = "rejected"
    THEN [pc |-> "threw", href |-> href]
    ELSE [pc |-> "navigated", href |-> LoginPath]

\* A click on Sign Out: handleSignOut starts and calls clientAuth.signOut()
\* (the button is not disabled while an earlier call is awaited).
ClickSignOut ==
    /\ HeaderMounted
    /\ Len(signOuts) < MaxSignOuts
    /\ signOuts' = Append(signOuts, [pc |-> "calling", outcome |-> "none"])
    /\ UNCHANGED <<mw, cacheVars, formVars, location>>

\* The i-th sign-out call completes, one way or another; the session is
\* ended when it succeeds. (The call completes at the service also when
\* the page that made it is gone.)
SignOutCompletes(i) ==
    /\ i \in DOMAIN signOuts
    /\ signOuts[i].pc = "calling"
    /\ \E outcome \in SignOutOutcomes :
          /\ signOuts' = [signOuts EXCEPT ![i] = [pc |-> "settled",
                                                   outcome |-> outcome]]
          /\ service' = IF outcome = "signedOut" THEN NoSession ELSE service
    /\ UNCHANGED <<mw, userQuery, inflight, orphanCalls, update, mutations,
                   formVars, location>>

\* The i-th run of handleSignOut resumes after its await, the page being
\* still there: it throws or navigates (a full navigation, after which
\* nothing of this page runs any more).
ResumeSignOut(i) ==
    /\ i \in DOMAIN signOuts
    /\ signOuts[i].pc = "settled"
    /\ HeaderMounted
    /\ LET r == handleSignOut(signOuts[i].outcome, location) IN
          /\ signOuts' = [signOuts EXCEPT ![i].pc = r.pc]
          /\ location' = r.href
    /\ UNCHANGED <<mw, cacheVars, formVars>>

---------------------------------------------------------------------------
(* Claims about the middleware *)

\* p is d itself or lies under the directory d.
Under(p, d) == p = d \/ StartsWith(p, d \o <<"/">>)

Redirected == mw.response = [kind |-> "redirect", location |-> LoginPath]

\* The allow-list read as exact routes and directories: /login,
\* /favicon.ico, and everything under /api, /_next/static, /_next/image.
ExactAllowListed(path) ==
    \/ path = LoginPath
    \/ path = <<"/", "f", "a", "v", "i", "c", "o", "n", ".", "i", "c", "o">>
    \/ Under(path, <<"/", "a", "p", "i">>)
    \/ Under(path, <<"/", "_", "n", "e", "x", "t", "/", "s", "t", "a", "t", "i", "c">>)
    \/ Under(path, <<"/", "_", "n", "e", "x", "t", "/", "i", "m", "a", "g", "e">>)

\* The allow-list read as plain string prefixes, the dot of favicon.ico
\* standing for any one letter.
PrefixAllowListed(path) ==
    \/ StartsWith(path, LoginPath)
    \/ StartsWith(path, <<"/", "a", "p", "i">>)
    \/ StartsWith(path, <<"/", "_", "n", "e", "x", "t", "/", "s", "t", "a", "t", "i", "c">>)
    \/ StartsWith(path, <<"/", "_", "n", "e", "x", "t", "/", "i", "m", "a", "g", "e">>)
    \/ /\ StartsWith(path, <<"/", "f", "a", "v", "i", "c", "o", "n">>)
       /\ Len(path) >= 12
       /\ SubSeq(path, 10, 12) = <<"i", "c", "o">>

C3_AllowListAndSessionsPass ==
    mw.handled =>
        /\ ExactAllowListed(mw.path) => mw.response = [kind |-> "next"]
        /\ mw.user # NoUser => mw.response = [kind |-> "next"]

\* A request to /login without a session passed, not redirected.
C3_Witness ==
    /\ mw.handled
    /\ mw.path = LoginPath
    /\ mw.user = NoUser
    /\ ~mw.ran
    /\ mw.response = [kind |-> "next"]

---------------------------------------------------------------------------
(* Claims about the current-user cache *)

\* The cached value shows every submitted field.
Reflects(data, updates) ==
    \A k \in DOMAIN updates : data.tag = "user" /\ data.val[k] = updates[k]

MutateStep == update.pc = "idle" /\ update'.pc = "calling"
SettleStep == update.pc = "answered" /\ update'.pc = "idle"
DeliverStep ==
    /\ inflight.sent
    /\ inflight.reply.answered
    /\ inflight' = NoCall
    /\ update' = update

\* C4 as stated: in every cache state, null and not yet loaded included,
\* the cached current user shows the submitted fields once onMutate has
\* run, before the call resolves; and the entry is invalidated when the
\* call settles, on success and on failure.
C4_OptimisticInEveryCacheState ==
    [][ /\ MutateStep => Reflects(userQuery'.data, update'.vars)
        /\ SettleStep => (userQuery.observers => userQuery'.isInvalidated)
      ]_vars

\* C4 amended: when the cache holds a user, the cached value shows the
\* submitted fields once onMutate has run and before the call resolves;
\* when it holds null or nothing, onMutate leaves the data as it is. The
\* entry, when the cache holds one, is invalidated when the call settles,
\* on success and on failure.
C4_OptimisticWhenUserCached ==
    [][ /\ MutateStep =>
             /\ update'.pc = "calling"
             /\ IF userQuery.data.tag = "user"
                THEN Reflects(userQuery'.data, update'.vars)
                ELSE userQuery'.data = userQuery.data
        /\ SettleStep => (userQuery.observers => userQuery'.isInvalidated)
      ]_vars

\* The name was updated optimistically while the service still holds the
\* old one and the call is under way.
C4_Witness ==
    /\ update.pc = "calling"
    /\ "name" \in DOMAIN update.vars
    /\ userQuery.data.tag = "user"
    /\ userQuery.data.val.name = <<"B", "o">>
    /\ service.signedIn
    /\ NormalizeUser(service).name # <<"B", "o">>

\* C5: a fetch of the current user answered by a service without a
\* session (and not failing otherwise) resolves to null and does not end
\* in an error.
C5_NoSessionResolvesToNull ==
    [][ ( /\ DeliverStep
          /\ ~inflight.reply.user.signedIn
          /\ inflight.reply.error # ServiceFailure )
        => ( /\ userQuery'.data = Null
             /\ userQuery'.error = NoError )
      ]_vars

\* C10 as stated: while the mutation is pending, no read from before it
\* is still awaited, and once the optimistic value is written the cached
\* value stays the optimistic one until the mutation settles.
C10_OptimisticValueStays ==
    update.pc # "idle" =>
        /\ inflight.sent => inflight.epoch = mutations
        /\ update.context.tag = "user" =>
               userQuery.data = OptimisticUpdater(update.context, update.vars)

\* C10 amended: while the mutation is pending, no read from before it is
\* still awaited (the reads then in flight were cancelled, and a cancelled
\* read's answer writes nothing); the cached value changes before the
\* mutation settles only when a read started after the optimistic write
\* completes.
C10_OnlyLaterReadsOverwrite ==
    /\ [](update.pc # "idle" => (inflight.sent => inflight.epoch = mutations))
    /\ [][ ( /\ update.pc # "idle"
             /\ update'.pc # "idle"
             /\ userQuery'.data # userQuery.data )
           => ( DeliverStep /\ inflight.epoch = mutations )
         ]_vars

\* A read was in flight when the mutation started: it was cancelled, the
\* optimistic value is in the cache and the read's answer is still due.
C10_Witness ==
    /\ update.pc = "calling"
    /\ update.context.tag = "user"
    /\ update.vars # NoMetadata
    /\ orphanCalls > 0
    /\ ~inflight.sent
    /\ userQuery.data = OptimisticUpdater(update.context, update.vars)
    /\ userQuery.data # update.context

\* The cached value is what a read of the service would give now.
Reconciled ==
    userQuery.data = (IF service.signedIn
                      THEN UserData(NormalizeUser(service))
                      ELSE Null)

\* The update call is known to have failed: its answer is an error, not
\* yet handled or already settled.
UpdateFailed ==
    \/ update.pc = "answered" /\ ~update.ok
    \/ update.pc = "idle" /\ update.status = "error"

\* A failed update has settled over a cached user.
FailedAndSettled ==
    /\ update.pc = "idle"
    /\ update.status = "error"
    /\ userQuery.data.tag = "user"

\* A read ends with data (queryFn returns, it does not throw).
ReadServed == DeliverStep /\ queryFn(inflight.reply).kind = "data"

\* C11 as stated: once the update call made over a cached user has
\* failed, the cached value keeps showing the submitted fields until the
\* refetch started by the invalidation at settle completes: before the
\* call has settled nothing takes them away, and after that only a
\* completed read does (or the optimistic write of a new mutation).
C11_OptimisticKeptUntilRefetch ==
    [][ ( /\ UpdateFailed
          /\ update.context.tag = "user"
          /\ Reflects(userQuery.data, update.vars)
          /\ ~Reflects(userQuery'.data, update.vars) )
        => (update.pc = "idle" /\ (ReadServed \/ MutateStep))
      ]_vars

\* C11 amended: a failed call is not rolled back: settling leaves the
\* cached value as it is, marks the entry invalidated and starts a
\* refetch; the cached value changes only by the optimistic write of a
\* mutation or by a served read that started after the last such write
\* (before the settling too); a read served while no mutation is under way
\* makes the cached value the service's value; and after a failed update
\* has settled over a cached user, eventually no read is awaited and the
\* cached value is the service's value, or the last read ended in an error.
C11_NoRollbackThenReconciled ==
    /\ [][ (SettleStep /\ ~update.ok) =>
              /\ userQuery'.data = userQuery.data
              /\ userQuery.data.tag = "user" =>
                    (userQuery'.isInvalidated /\ inflight' = NewCall)
          ]_vars
    /\ [][ userQuery'.data # userQuery.data =>
              \/ MutateStep
              \/ ReadServed /\ inflight.epoch = mutations
          ]_vars
    /\ [][ (ReadServed /\ update.pc = "idle") => Reconciled' ]_vars
    /\ FailedAndSettled ~>
          ( /\ update.pc = "idle"
            /\ ~inflight.sent
            /\ Reconciled \/ userQuery.error # NoError )

\* The update failed without changing the account and has settled: the
\* cache still holds the optimistic value, which is not the service's,
\* and the refetch is under way.
C11_Witness ==
    /\ FailedAndSettled
    /\ update.vars # NoMetadata
    /\ userQuery.data = OptimisticUpdater(update.context, update.vars)
    /\ ~Reconciled
    /\ userQuery.isInvalidated
    /\ inflight.sent

---------------------------------------------------------------------------
(* Claims about the signup form and the registration mutation *)

\* The four rules in the order of the claim, and which of them fail.
RuleMessages ==
    <<MsgNameRequired, MsgEmailRequired, MsgPasswordTooShort,
      MsgPasswordMismatch>>

RuleFails(fd) ==
    << Trim(fd.name) = <<>>,
       Trim(fd.email) = <<>>,
       Len(fd.password) < 6,
       fd.password # fd.confirmPassword >>

AllRulesPass(fd) == \A i \in 1..4 : ~RuleFails(fd)[i]

FirstFailingMessage(fd) ==
    RuleMessages[CHOOSE i \in 1..4 :
                    /\ RuleFails(fd)[i]
                    /\ \A j \in 1..(i - 1) : ~RuleFails(fd)[j]]

RegistrationStarted == signup.pc # "signUp" /\ signup'.pc = "signUp"
RegistrationFailed == isSignupPending /\ signup'.status = "error"
RegistrationSucceeded == isSignupPending /\ signup'.status = "success"

\* C1: on every submission the rules are checked in the order name,
\* email, password length, confirmation; when one fails the registration
\* call is not made and the error shown is the message of the first
\* failing rule; the call is made only when all four pass.
C1_ValidationOrder ==
    [][ /\ HandleSubmit =>
             IF AllRulesPass(formData)
             THEN error' = <<>> /\ RegistrationStarted
             ELSE /\ error' = FirstFailingMessage(formData)
                  /\ signup' = signup
        /\ RegistrationStarted => AllRulesPass(formData)
      ]_vars

\* A name is given, the email is blank and the password too short: the
\* email's message is shown and no registration was ever started.
C1_Witness ==
    /\ Trim(formData.name) # <<>>
    /\ Trim(formData.email) = <<>>
    /\ formData.email # <<>>
    /\ Len(formData.password) = 5
    /\ error = MsgEmailRequired
    /\ signup = IdleSignup

\* C6: when the registration succeeds the form shows the success view
\* and no error text, also after an earlier attempt left one; the success
\* view is entered only from a pending registration and never left.
C6_SuccessShowsNoError ==
    /\ [][RegistrationSucceeded => (success' /\ error' = <<>>)]_vars
    /\ [][(~success /\ success') => RegistrationSucceeded]_vars
    /\ [][success => success']_vars
    /\ [](success => (error = <<>> /\ signup.status = "success"))

\* The success view after an earlier attempt had shown an error.
C6_Witness ==
    /\ success
    /\ errorShown
    /\ error = <<>>
    /\ signup.status = "success"

\* C7: a registration failing with the message "User already registered"
\* shows the already-registered text, leaves the form view on screen and
\* the form enabled for another submission.
C7_AlreadyRegisteredText ==
    [][ (RegistrationFailed /\ signup'.message = UserAlreadyRegistered)
        => ( /\ error' = MsgAlreadyRegistered
             /\ ~success'
             /\ FormEnabled' )
      ]_vars

\* The already-registered text is shown on the form view.
C7_Witness ==
    /\ signup.status = "error"
    /\ signup.message = UserAlreadyRegistered
    /\ error = MsgAlreadyRegistered
    /\ FormEnabled

\* The mapping as C8 states it: by substring throughout, the raw message
\* otherwise.
SubstringMapping(message) ==
    IF Includes(message, <<"a", "l", "r", "e", "a", "d", "y", " ", "r", "e", "g", "i", "s", "t", "e", "r", "e", "d">>)
    THEN MsgAlreadyRegistered
    ELSE IF Includes(message, <<"P", "a", "s", "s", "w", "o", "r", "d">>)
    THEN MsgWeakPassword
    ELSE IF \/ Includes(message, <<"N", "e", "t", "w", "o", "r", "k", "E", "r", "r", "o", "r">>)
            \/ Includes(message, <<"f", "e", "t", "c", "h">>)
    THEN MsgNetworkError
    ELSE message

\* C8 as stated: every registration failure shows the text the substring
\* mapping gives for its message.
C8_MappedBySubstring ==
    [][RegistrationFailed => error' = SubstringMapping(signup'.message)]_vars

\* C8 amended: the already-registered text is shown for the message
\* "User already registered" exactly; otherwise a message containing
\* "Password" shows the weak-password text; otherwise one containing
\* "NetworkError" or "fetch" the network text; every other message is
\* shown as it is, and an empty one as the general signup-failed text.
C8_MappedExactThenSubstring ==
    [][ RegistrationFailed =>
          LET m == signup'.message IN
          CASE m = UserAlreadyRegistered -> error' = MsgAlreadyRegistered
            [] m # UserAlreadyRegistered /\ Includes(m, <<"P", "a", "s", "s", "w", "o", "r", "d">>)
                 -> error' = MsgWeakPassword
            [] /\ m # UserAlreadyRegistered
               /\ ~Includes(m, <<"P", "a", "s", "s", "w", "o", "r", "d">>)
               /\ \/ Includes(m, <<"N", "e", "t", "w", "o", "r", "k", "E", "r", "r", "o", "r">>)
                  \/ Includes(m, <<"f", "e", "t", "c", "h">>)
                 -> error' = MsgNetworkError
            [] OTHER -> error' = (IF m = <<>> THEN MsgSignupFailed ELSE m)
      ]_vars

\* "Email already registered" is shown as it came.
C8_Witness ==
    /\ signup.status = "error"
    /\ Includes(signup.message, <<"a", "l", "r", "e", "a", "d", "y", " ", "r", "e", "g", "i", "s", "t", "e", "r", "e", "d">>)
    /\ signup.message # UserAlreadyRegistered
    /\ error = signup.message

SignUpFailedReply(reply) == reply.error \/ ~reply.user.created

\* C9: the registration fails iff signUp reports an error or returns no
\* user, and otherwise returns the created user with
\* needsEmailConfirmation true iff it has no email-confirmed timestamp;
\* the profile check runs at most once, after a successful signUp and the
\* delay, and no outcome of it changes the result; the current-user entry
\* is invalidated on success and untouched on failure.
C9_OutcomeFromSignUpAlone ==
    /\ [][ (signup.pc = "signUp" /\ signup'.pc # "signUp") =>
             /\ signup'.status = "error" <=> SignUpFailedReply(signup'.reply)
             /\ signup'.status # "error" =>
                   (signup'.pc = "delay" /\ isSignupPending')
         ]_vars
    /\ [][ (signup.pc # "profileCheck" /\ signup'.pc = "profileCheck")
             => signup.pc = "delay" ]_vars
    /\ [][ signup'.profileChecks > signup.profileChecks =>
             (signup.pc = "profileCheck" /\ signup'.status = "success") ]_vars
    /\ [][ RegistrationSucceeded =>
             (userQuery.observers =>
                 (userQuery'.isInvalidated /\ inflight' = NewCall)) ]_vars
    /\ [][ RegistrationFailed =>
             UNCHANGED <<userQuery, inflight, orphanCalls>> ]_vars
    /\ [] ( /\ signup.profileChecks <= 1
            /\ signup.status = "error" =>
                 (SignUpFailedReply(signup.reply) /\ signup.profileChecks = 0)
            /\ signup.status = "success" =>
                 /\ ~SignUpFailedReply(signup.reply)
                 /\ signup.profileChecks = 1
                 /\ signup.data.user = signup.reply.user
                 /\ signup.data.needsEmailConfirmation
                      <=> (signup.reply.user.email_confirmed_at = "") )

\* The look-up of the profile row threw, and the registration succeeded
\* all the same, with the confirmation still due and the entry invalidated.
C9_Witness ==
    /\ signup.status = "success"
    /\ signup.profileOutcome = "thrown"
    /\ signup.data.needsEmailConfirmation
    /\ userQuery.isInvalidated

---------------------------------------------------------------------------
(* Claims about signing out *)

Triggered(i) == i \in DOMAIN signOuts

\* The step is the navigation to the login page.
NavigationStep == location # LoginPath /\ location' = LoginPath

\* C12 as stated: every run of handleSignOut that has ended has navigated
\* the browser to /login, whatever the outcome of its sign-out call (and
\* none navigates before its call has completed).
C12_NavigatesWhateverTheOutcome ==
    \A i \in DOMAIN signOuts :
        /\ signOuts[i].pc \in {"threw", "navigated"} => location = LoginPath
        /\ signOuts[i].pc = "navigated" => signOuts[i].outcome # "none"

\* C12 amended: every click starts a run that calls the sign-out
\* operation; the browser is navigated to /login only by a run whose call
\* has completed and was not rejected, and a run ends without navigating
\* only when its call was rejected; and after every click, eventually the
\* browser is at /login or that run's call was rejected and the run has
\* ended without navigating.
C12_NavigatesUnlessRejected ==
    /\ [][ Len(signOuts') > Len(signOuts) =>
              signOuts' = Append(signOuts, [pc |-> "calling",
                                            outcome |-> "none"]) ]_vars
    /\ [][ NavigationStep =>
              \E i \in DOMAIN signOuts :
                  /\ signOuts[i].pc = "settled"
                  /\ signOuts[i].outcome \in {"signedOut", "errorReturned"}
                  /\ signOuts'[i].pc = "navigated" ]_vars
    /\ [] (\A i \in DOMAIN signOuts :
              /\ signOuts[i].pc = "threw" => signOuts[i].outcome = "rejected"
              /\ signOuts[i].pc = "navigated" =>
                    /\ signOuts[i].outcome \in {"signedOut", "errorReturned"}
                    /\ location = LoginPath)
    /\ \A i \in 1..MaxSignOuts :
          Triggered(i) ~>
              \/ location = LoginPath
              \/ /\ Triggered(i)
                 /\ signOuts[i].pc = "threw"
                 /\ signOuts[i].outcome = "rejected"

\* The sign-out call returned an error, the session is still there, and
\* the browser was navigated to /login all the same.
C12_Witness ==
    /\ Triggered(1)
    /\ signOuts[1].pc = "navigated"
    /\ signOuts[1].outcome = "errorReturned"
    /\ service.signedIn
    /\ location = LoginPath

---------------------------------------------------------------------------

Init ==
    /\ mw = NoRequest
    /\ service \in InitialSessions
    /\ userQuery = [observers |-> FALSE, data |-> Undefined,
                    isInvalidated |-> FALSE, stale |-> FALSE,
                    error |-> NoError]
    /\ inflight = NoCall
    /\ orphanCalls = 0
    /\ update = IdleUpdate
    /\ mutations = 0
    /\ formData = [email |-> <<>>, password |-> <<>>,
                   confirmPassword |-> <<>>, name |-> <<>>]
    /\ error = <<>>
    /\ success = FALSE
    /\ signup = IdleSignup
    /\ errorShown = FALSE
    /\ location = HomePath
    /\ signOuts = <<>>

NextMiddleware == HandleRequest

NextCache ==
    \/ MountObserver
    \/ StaleTimeElapses
    \/ RefetchStale
    \/ ServiceAnswersGetUser
    \/ DeliverGetUser
    \/ DeliverCancelled
    \/ Mutate
    \/ ServiceAnswersUpdate
    \/ SettleUpdate

SpecCache == Init /\ [][NextCache]_vars

\* The network answers every call in the end and the callbacks of a
\* resolved promise run; mounting, focus and new mutations are up to the
\* user.
FairCache ==
    /\ WF_vars(ServiceAnswersGetUser)
    /\ WF_vars(DeliverGetUser)
    /\ WF_vars(ServiceAnswersUpdate)
    /\ WF_vars(SettleUpdate)

SpecCacheFair == SpecCache /\ FairCache

NextSignup ==
    \/ HandleChange
    \/ HandleSubmit
    \/ SignUpResponds
    \/ DelayElapses
    \/ ProfileCheckResponds
    \/ MountObserver
    \/ ServiceAnswersGetUser
    \/ DeliverGetUser
    \/ DeliverCancelled

SpecSignup == Init /\ [][NextSignup]_vars

SpecMiddleware == Init /\ [][NextMiddleware]_vars

NextSignOut ==
    \/ ClickSignOut
    \/ \E i \in 1..MaxSignOuts : SignOutCompletes(i)
    \/ \E i \in 1..MaxSignOuts : ResumeSignOut(i)

\* Every sign-out call completes in the end, and a settled promise's
\* continuation runs while the page is there; clicks are up to the user.
FairSignOut ==
    \A i \in 1..MaxSignOuts :
        /\ WF_vars(SignOutCompletes(i))
        /\ WF_vars(ResumeSignOut(i))

SpecSignOut == Init /\ [][NextSignOut]_vars /\ FairSignOut

===========================================================================
